---- MODULE Spec2Model ----
(***************************************************************************)
(* A model of generate_watchlist.py: one run of main() over a config file  *)
(* and an input table, producing the general, growth and value watchlists. *)
(*                                                                         *)
(* Representation of numbers.  Prices, turnovers and factor values are     *)
(* integers.  Weights are held in hundredths (0.45 is 45).  A rank score,  *)
(* a real in [0,1], is held as an integer in 0..ScoreScale, ScoreScale     *)
(* being a common multiple of every denominator rank_score can produce on  *)
(* a table of at most MaxRows rows, so the division is exact.              *)
(*                                                                         *)
(* Representation of text.  Config values are the texts of the config      *)
(* file; parse_int, parse_float and parse_list are given on the texts the  *)
(* model uses.  str.upper and str.lower are given on the symbols and       *)
(* sectors the model uses.                                                 *)
(***************************************************************************)
EXTENDS Integers, Sequences, FiniteSets

VARIABLES
    pc,        \* position of main(): the next statement to run
    cfgFile,   \* config_jp.txt: [present, kv]
    csvFile,   \* jp_latest.csv: [present, header, rows]
    files,     \* the three output files, by list name
    cfg,       \* main's cfg
    top_n,     \* main's top_n
    raw,       \* main's df as load_csv returns it
    df,        \* main's df after ensure_fields, then after apply_filters
    cand,      \* per list: the table handed to the scorer (df, df_growth, df_value)
    score,     \* per list: the score series (score_g, score_gr, score_v)
    top,       \* per list: the picked table (top_g, top_gr, top_v)
    col,       \* rank_score study: the column s
    asc,       \* rank_score study: the argument ascending
    res        \* rank_score study / apply_filters study: the value returned

vars == <<pc, cfgFile, csvFile, files, cfg, top_n, raw, df, cand, score, top, col, asc, res>>

\* ---------------------------------------------------------------- bounds

MaxRows == 3
MaxVal == 2
MaxFilterRows == 2
MaxEnsureRows == 2

\* ------------------------------------------------------------- utilities

Max(a, b) == IF a >= b THEN a ELSE b
Min(a, b) == IF a <= b THEN a ELSE b

RECURSIVE Gcd(_, _)
Gcd(a, b) == IF b = 0 THEN a ELSE Gcd(b, a % b)

RECURSIVE LcmUpTo(_)
LcmUpTo(n) == IF n <= 1 THEN 1 ELSE LET l == LcmUpTo(n - 1) IN (l * n) \div Gcd(l, n)

\* The integer that stands for the score 1.0.
ScoreScale == LcmUpTo(2 * MaxRows)

SeqsUpTo(S, n) == UNION { [1..k -> S] : k \in 0..n }

\* The subsequence of s at the positions that satisfy keep, in order
\* (a pandas boolean-mask selection df[mask]).
RECURSIVE MaskFrom(_, _, _)
MaskFrom(s, keep, i) ==
    IF i > Len(s) THEN <<>>
    ELSE (IF keep[i] THEN <<s[i]>> ELSE <<>>) \o MaskFrom(s, keep, i + 1)

Mask(s, keep) == MaskFrom(s, keep, 1)

Range(s) == { s[i] : i \in DOMAIN s }

\* ------------------------------------------------------------------ text

\* str.upper() on the symbols of the model.
StrUpper(s) ==
    CASE s = "aaa" -> "AAA"
      [] s = "bbb" -> "BBB"
      [] s = "ccc" -> "CCC"
      [] OTHER -> s

\* str.lower() on the sectors of the model.
StrLower(s) ==
    CASE s = "Utilities" -> "utilities"
      [] s = "UTILITIES" -> "utilities"
      [] s = "Consumer Staples" -> "consumer staples"
      [] s = "Healthcare" -> "healthcare"
      [] s = "Telecommunications" -> "telecommunications"
      [] s = "Technology" -> "technology"
      [] OTHER -> s

\* The text of DEFAULTS["SECTOR_DEFENSIVE"].
DefensiveText == "Utilities, Consumer Staples, Healthcare, Telecommunications"

\* parse_int on the config texts of the model: the first run of digits, else
\* the default.
parse_int(val, default) ==
    CASE val = "0" -> 0
      [] val = "1" -> 1
      [] val = "2" -> 2
      [] val = "3" -> 3
      [] val = "40" -> 40
      [] OTHER -> default

\* parse_float on the config texts that hold whole quantities (prices,
\* turnovers), else the default.
parse_float(val, default) ==
    CASE val = "0" -> 0
      [] val = "200" -> 200
      [] val = "400" -> 400
      [] val = "500" -> 500
      [] val = "20000" -> 20000
      [] val = "3e8" -> 300000000
      [] val = "1e9" -> 1000000000
      [] OTHER -> default

\* parse_float on the config texts that hold weights, in hundredths, else the
\* default (in hundredths).
parse_weight(val, default) ==
    CASE val = "0" -> 0
      [] val = "1" -> 100
      [] val = "0.45" -> 45
      [] val = "0.30" -> 30
      [] val = "0.15" -> 15
      [] val = "0.10" -> 10
      [] val = "-0.10" -> -10
      [] val = "0.6" -> 60
      [] val = "0.3" -> 30
      [] val = "0.1" -> 10
      [] val = "-0.35" -> -35
      [] val = "0.20" -> 20
      [] val = "0.35" -> 35
      [] val = "0.25" -> 25
      [] val = "-0.05" -> -5
      [] val = "0.40" -> 40
      [] OTHER -> default

\* parse_list on the config texts of the model: split on separators, strip,
\* drop the empty parts.
parse_list(val) ==
    CASE val = "" -> <<>>
      [] val = "," -> <<>>
      [] val = DefensiveText ->
            <<"Utilities", "Consumer Staples", "Healthcare", "Telecommunications">>
      [] val = "aaa" -> <<"aaa">>
      [] val = "BBB, ccc" -> <<"BBB", "ccc">>
      [] val = "Utilities" -> <<"Utilities">>
      [] val = "technology" -> <<"technology">>
      [] val = "UTILITIES; Technology" -> <<"UTILITIES", "Technology">>
      [] OTHER -> <<val>>

\* ---------------------------------------------------------------- config

\* DEFAULTS with other general and growth weights.
DEFAULTS_reweighted ==
    [ TOP_LIMIT |-> "40",
      MIN_PRICE |-> "200",
      MAX_PRICE |-> "20000",
      MIN_TURNOVER |-> "3e8",
      SECTOR_DEFENSIVE |-> DefensiveText,
      EXCLUDE_SYMBOLS |-> "",
      INCLUDE_SECTORS |-> "",
      EXCLUDE_SECTORS |-> "",
      W_CHANGE |-> "0.35",
      W_TURNOVER |-> "0.25",
      W_MCAP |-> "0.15",
      W_DIV |-> "0.10",
      W_PE |-> "-0.05",
      GW_CHANGE |-> "0.40",
      GW_TURNOVER |-> "0.3",
      GW_MCAP |-> "0.1",
      VW_DIV |-> "0.45",
      VW_PE |-> "-0.35",
      VW_MCAP |-> "0.20" ]

DEFAULTS ==
    [ TOP_LIMIT |-> "40",
      MIN_PRICE |-> "200",
      MAX_PRICE |-> "20000",
      MIN_TURNOVER |-> "3e8",
      SECTOR_DEFENSIVE |-> DefensiveText,
      EXCLUDE_SYMBOLS |-> "",
      INCLUDE_SECTORS |-> "",
      EXCLUDE_SECTORS |-> "",
      W_CHANGE |-> "0.45",
      W_TURNOVER |-> "0.30",
      W_MCAP |-> "0.15",
      W_DIV |-> "0.10",
      W_PE |-> "-0.10",
      GW_CHANGE |-> "0.6",
      GW_TURNOVER |-> "0.3",
      GW_MCAP |-> "0.1",
      VW_DIV |-> "0.45",
      VW_PE |-> "-0.35",
      VW_MCAP |-> "0.20" ]

\* A config file: absent, or the key/value lines it holds (keys upper-cased).
NoCfgFile == [present |-> FALSE, kv |-> <<>>]
CfgFileOf(kv) == [present |-> TRUE, kv |-> kv]

load_config(path) ==
    IF ~path.present THEN DEFAULTS
    ELSE [k \in (DOMAIN DEFAULTS) \cup (DOMAIN path.kv) |->
            IF k \in DOMAIN path.kv THEN path.kv[k] ELSE DEFAULTS[k]]

\* cfg.get(key, default)
CfgGet(c, key, default) == IF key \in DOMAIN c THEN c[key] ELSE default

\* ----------------------------------------------------------- input table

\* The columns a table may hold, each named by the ALIASES key its header
\* name resolves to.
Columns == {"symbol", "price", "change_pct", "change", "volume", "turnover",
            "marketcap", "pe", "div_yield", "sector"}

NoCsvFile == [present |-> FALSE, header |-> {}, rows |-> <<>>]
CsvFileOf(header, rows) == [present |-> TRUE, header |-> header, rows |-> rows]

\* find_col: whether the table has a column for the key (the code returns the
\* column's name, or None).
find_col(header, key) == key \in header

\* load_csv without the df.empty check.
load_csv_fails_absent_only(path) == ~path.present

\* load_csv raises SystemExit when the file is absent or holds no row.
load_csv_fails(path) == ~path.present \/ Len(path.rows) = 0

load_csv(path) == [header |-> path.header, rows |-> path.rows]

\* sum of df["_price"].abs()
RECURSIVE AbsSumFrom(_, _)
AbsSumFrom(prices, i) ==
    IF i > Len(prices) THEN 0
    ELSE (IF prices[i] < 0 THEN 0 - prices[i] ELSE prices[i]) + AbsSumFrom(prices, i + 1)

\* A float is held as its class ("finite", "inf", "-inf" or "nan") and, when
\* finite, its value.  The class of change / price * 100 in float
\* arithmetic: a zero price gives an infinity of the sign of the change, and
\* 0/0 gives nan; no exception is raised.
PctClass(change, price) ==
    IF price # 0 THEN "finite"
    ELSE IF change > 0 THEN "inf"
    ELSE IF change < 0 THEN "-inf"
    ELSE "nan"

\* The value of change / price * 100 when it is finite (held as 0 when it is
\* not), on the tables of the model, whose quotients are whole.
PctOf(change, price) == IF price = 0 THEN 0 ELSE (change * 100) \div price

ensure_fields(tbl) ==
    LET h == tbl.header
        priceOf(r) == IF find_col(h, "price") THEN r.price ELSE 0
        prices == [i \in DOMAIN tbl.rows |-> priceOf(tbl.rows[i])]
        derive == find_col(h, "change") /\ AbsSumFrom(prices, 1) > 0
        chgOf(r) ==
            IF find_col(h, "change_pct") THEN r.change_pct
            ELSE IF derive THEN PctOf(r.change, priceOf(r))
            ELSE 0
        chgClassOf(r) ==
            IF ~find_col(h, "change_pct") /\ derive
            THEN PctClass(r.change, priceOf(r))
            ELSE "finite"
        tovOf(r) ==
            IF find_col(h, "turnover") THEN r.turnover
            ELSE IF find_col(h, "volume") THEN priceOf(r) * r.volume
            ELSE 0
        canon(r) ==
            [ symbol |-> r.symbol,
              price |-> priceOf(r),
              chg_pct |-> chgOf(r),
              chg_class |-> chgClassOf(r),
              turnover |-> tovOf(r),
              mcap |-> IF find_col(h, "marketcap") THEN r.marketcap ELSE 0,
              pe |-> IF find_col(h, "pe") THEN r.pe ELSE 0,
              div |-> IF find_col(h, "div_yield") THEN r.div_yield ELSE 0,
              sector |-> IF find_col(h, "sector") THEN r.sector ELSE "" ]
    IN  [i \in DOMAIN tbl.rows |-> canon(tbl.rows[i])]

\* ---------------------------------------------------------------- filter

UpperSet(list) == { StrUpper(list[i]) : i \in DOMAIN list }
LowerSet(list) == { StrLower(list[i]) : i \in DOMAIN list }

\* drop_duplicates with keep="last".
drop_duplicates_last(t) ==
    Mask(t, [i \in DOMAIN t |-> \A j \in (i + 1)..Len(t) : t[j].symbol # t[i].symbol])

\* drop_duplicates(subset=["_symbol"], keep="first")
drop_duplicates(t) ==
    Mask(t, [i \in DOMAIN t |-> \A j \in 1..(i - 1) : t[j].symbol # t[i].symbol])

apply_filters(t, c) ==
    LET min_price == parse_float(CfgGet(c, "MIN_PRICE", "None"), 0)
        \* the default 1e12 of the code, held as a number above every price
        max_price == parse_float(CfgGet(c, "MAX_PRICE", "None"), 2000000000)
        min_turnover == parse_float(CfgGet(c, "MIN_TURNOVER", "None"), 0)
        include_secs == LowerSet(parse_list(CfgGet(c, "INCLUDE_SECTORS", "")))
        exclude_secs == LowerSet(parse_list(CfgGet(c, "EXCLUDE_SECTORS", "")))
        exclude_syms == UpperSet(parse_list(CfgGet(c, "EXCLUDE_SYMBOLS", "")))
        out1 == Mask(t, [i \in DOMAIN t |->
                    /\ t[i].price >= min_price
                    /\ t[i].price <= max_price
                    /\ t[i].turnover >= min_turnover
                    /\ StrUpper(t[i].symbol) \notin exclude_syms])
        out2 == IF include_secs # {}
                THEN Mask(out1, [i \in DOMAIN out1 |->
                        StrLower(out1[i].sector) \in include_secs])
                ELSE out1
        out3 == IF exclude_secs # {}
                THEN Mask(out2, [i \in DOMAIN out2 |->
                        StrLower(out2[i].sector) \notin exclude_secs])
                ELSE out2
    IN  drop_duplicates(out3)

\* --------------------------------------------------------------- scoring

\* Twice the rank that Series.rank(method="average", ascending=...) gives
\* the i-th value: ascending ranks the smallest value 1, descending ranks
\* the largest value 1; tied values share the mean of their positions.
Rank2(s, ascending, i) ==
    LET before == Cardinality({ j \in DOMAIN s :
                      IF ascending THEN s[j] < s[i] ELSE s[j] > s[i] })
        same == Cardinality({ j \in DOMAIN s : s[j] = s[i] })
    IN  2 * before + same + 1

SeqMin(r) == CHOOSE x \in Range(r) : \A y \in Range(r) : x <= y
SeqMax(r) == CHOOSE x \in Range(r) : \A y \in Range(r) : x >= y

\* rank_score with the all-equal column scored at the midpoint.
rank_score_midpoint(s, ascending) ==
    IF Len(s) = 0 THEN <<>>
    ELSE LET r == [i \in DOMAIN s |-> Rank2(s, ascending, i)]
             lo == SeqMin(r)
             hi == SeqMax(r)
         IN  [i \in DOMAIN s |->
                IF hi # lo THEN (ScoreScale * (r[i] - lo)) \div (hi - lo)
                ELSE ScoreScale \div 2]

\* (r - r.min()) / (r.max() - r.min() if r.max() != r.min() else 1.0),
\* in units of 1/ScoreScale.
rank_score(s, ascending) ==
    IF Len(s) = 0 THEN <<>>
    ELSE LET r == [i \in DOMAIN s |-> Rank2(s, ascending, i)]
             lo == SeqMin(r)
             hi == SeqMax(r)
         IN  [i \in DOMAIN s |->
                IF hi # lo THEN (ScoreScale * (r[i] - lo)) \div (hi - lo)
                ELSE (ScoreScale * (r[i] - lo)) \div 2]

Column(t, f) == [i \in DOMAIN t |-> t[i][f]]

compute_score_general(t, c) ==
    LET w_change == parse_weight(c["W_CHANGE"], 45)
        w_tov == parse_weight(c["W_TURNOVER"], 30)
        w_mcap == parse_weight(c["W_MCAP"], 15)
        w_div == parse_weight(c["W_DIV"], 10)
        w_pe == parse_weight(c["W_PE"], -10)
        chg == rank_score(Column(t, "chg_pct"), FALSE)
        tov == rank_score(Column(t, "turnover"), FALSE)
        mcap == rank_score(Column(t, "mcap"), FALSE)
        div == rank_score(Column(t, "div"), FALSE)
        pe == rank_score(Column(t, "pe"), TRUE)
    IN  [i \in DOMAIN t |->
            w_change * chg[i] + w_tov * tov[i] + w_mcap * mcap[i]
            + w_div * div[i] + w_pe * pe[i]]

compute_score_growth(t, c) ==
    LET w_change == parse_weight(c["GW_CHANGE"], 60)
        w_tov == parse_weight(c["GW_TURNOVER"], 30)
        w_mcap == parse_weight(c["GW_MCAP"], 10)
        chg == rank_score(Column(t, "chg_pct"), FALSE)
        tov == rank_score(Column(t, "turnover"), FALSE)
        mcap == rank_score(Column(t, "mcap"), FALSE)
    IN  [i \in DOMAIN t |->
            w_change * chg[i] + w_tov * tov[i] + w_mcap * mcap[i]]

compute_score_value(t, c) ==
    LET w_div == parse_weight(c["VW_DIV"], 45)
        w_pe == parse_weight(c["VW_PE"], -35)
        w_mcap == parse_weight(c["VW_MCAP"], 20)
        div == rank_score(Column(t, "div"), FALSE)
        pe == rank_score(Column(t, "pe"), TRUE)
        mcap == rank_score(Column(t, "mcap"), FALSE)
    IN  [i \in DOMAIN t |->
            w_div * div[i] + w_pe * pe[i] + w_mcap * mcap[i]]

\* ------------------------------------------------------ select and write

Lists == {"general", "growth", "value"}

TitleOf(l) ==
    CASE l = "general" -> "JP watchlist (general)"
      [] l = "growth" -> "JP watchlist (growth)"
      [] OTHER -> "JP watchlist (value/defensive)"

Permutations(n) == { p \in [1..n -> 1..n] : \A i, j \in 1..n : i # j => p[i] # p[j] }

\* A row of out: the row, its "_score" and its index label (its position in
\* the table scored).
Scored(t, sc, i) ==
    [ idx |-> i, symbol |-> t[i].symbol, sector |-> t[i].sector, score |-> sc[i] ]

\* sort_values with ascending=True.
SortOrders_ascending(sc) ==
    { p \in Permutations(Len(sc)) :
        \A k \in 1..(Len(sc) - 1) : sc[p[k]] <= sc[p[k + 1]] }

\* The orders sort_values("_score", ascending=False) may return.  The call
\* leaves kind at its default, "quicksort", which pandas documents as not
\* stable: rows of equal score come out in an order the build decides.
SortOrders(sc) ==
    { p \in Permutations(Len(sc)) :
        \A k \in 1..(Len(sc) - 1) : sc[p[k]] >= sc[p[k + 1]] }

\* pick_top without the head(n).
pick_top_all(t, sc, n) ==
    { [k \in 1..Len(t) |-> Scored(t, sc, p[k])] : p \in SortOrders(sc) }

\* The tables pick_top(df, score, n) may return.
pick_top(t, sc, n) ==
    { [k \in 1..Min(n, Len(t)) |-> Scored(t, sc, p[k])] : p \in SortOrders(sc) }

\* The content write_watchlist leaves in the file (the timestamp line left
\* out): the title, the filters line, total=len(picked), one symbol a line.
write_watchlist(title, picked, c) ==
    [ kind |-> "watchlist",
      title |-> title,
      filters |-> << CfgGet(c, "MIN_PRICE", "None"), CfgGet(c, "MAX_PRICE", "None"),
                     CfgGet(c, "MIN_TURNOVER", "None") >>,
      total |-> Len(picked),
      symbols |-> [i \in DOMAIN picked |-> picked[i].symbol] ]

\* An output file that no run has written, and one a previous run left.
NoFile == [kind |-> "none"]
StaleFile == [kind |-> "watchlist", title |-> "stale", filters |-> <<>>,
              total |-> 1, symbols |-> <<"ZZZ">>]

\* The defensive set of main().
DefensiveOf(c) == LowerSet(parse_list(CfgGet(c, "SECTOR_DEFENSIVE", "")))

\* df_growth and df_value of main().
GrowthTable(t, c) ==
    IF DefensiveOf(c) # {}
    THEN Mask(t, [i \in DOMAIN t |-> StrLower(t[i].sector) \notin DefensiveOf(c)])
    ELSE t

\* df_value without the defensive mask.
ValueTable_unmasked(t, c) == t

ValueTable(t, c) ==
    IF DefensiveOf(c) # {}
    THEN Mask(t, [i \in DOMAIN t |-> StrLower(t[i].sector) \in DefensiveOf(c)])
    ELSE t

\* ---------------------------------------------------------------- main()

LoadConfig ==
    /\ pc = "load_config"
    /\ cfg' = load_config(cfgFile)
    /\ top_n' = Max(1, parse_int(CfgGet(cfg', "TOP_LIMIT", "None"), 40))
    /\ pc' = "load_csv"
    /\ UNCHANGED <<cfgFile, csvFile, files, raw, df, cand, score, top, col, asc, res>>

LoadCsv ==
    /\ pc = "load_csv"
    /\ ~load_csv_fails(csvFile)
    /\ raw' = load_csv(csvFile)
    /\ pc' = "ensure_fields"
    /\ UNCHANGED <<cfgFile, csvFile, files, cfg, top_n, df, cand, score, top, col, asc, res>>

\* load_csv raises SystemExit: the run ends.
LoadCsvExit ==
    /\ pc = "load_csv"
    /\ load_csv_fails(csvFile)
    /\ pc' = "exit"
    /\ UNCHANGED <<cfgFile, csvFile, files, cfg, top_n, raw, df, cand, score, top, col, asc, res>>

EnsureFields ==
    /\ pc = "ensure_fields"
    /\ df' = ensure_fields(raw)
    /\ pc' = "apply_filters"
    /\ UNCHANGED <<cfgFile, csvFile, files, cfg, top_n, raw, cand, score, top, col, asc, res>>

ApplyFilters ==
    /\ pc = "apply_filters"
    /\ df' = apply_filters(df, cfg)
    /\ pc' = IF Len(df') = 0 THEN "empty_general" ELSE "general"
    /\ UNCHANGED <<cfgFile, csvFile, files, cfg, top_n, raw, cand, score, top, col, asc, res>>

\* One turn of the loop of the empty branch: write_watchlist(p, t, df, cfg).
WriteEmpty(l, next) ==
    /\ pc = "empty_" \o l
    /\ files' = [files EXCEPT ![l] = write_watchlist(TitleOf(l), df, cfg)]
    /\ pc' = next
    /\ UNCHANGED <<cfgFile, csvFile, cfg, top_n, raw, df, cand, score, top, col, asc, res>>

\* Score a list's table, pick its top rows, write its file.
Emit(l, t, sc, next) ==
    /\ pc = l
    /\ \E picked \in pick_top(t, sc, top_n) :
        /\ cand' = [cand EXCEPT ![l] = t]
        /\ score' = [score EXCEPT ![l] = sc]
        /\ top' = [top EXCEPT ![l] = picked]
        /\ files' = [files EXCEPT ![l] = write_watchlist(TitleOf(l), picked, cfg)]
    /\ pc' = next
    /\ UNCHANGED <<cfgFile, csvFile, cfg, top_n, raw, df, col, asc, res>>

General == Emit("general", df, compute_score_general(df, cfg), "growth")

Growth ==
    Emit("growth", GrowthTable(df, cfg),
         compute_score_growth(GrowthTable(df, cfg), cfg), "value")

Value ==
    Emit("value", ValueTable(df, cfg),
         compute_score_value(ValueTable(df, cfg), cfg), "done")

\* The empty branch's loop ending one file short.
EmptyValueSkipped ==
    /\ pc = "empty_value"
    /\ pc' = "done"
    /\ UNCHANGED <<cfgFile, csvFile, files, cfg, top_n, raw, df, cand, score, top, col, asc, res>>

EmptyGeneral == WriteEmpty("general", "empty_growth")
EmptyGrowth == WriteEmpty("growth", "empty_value")
EmptyValue == WriteEmpty("value", "done")

\* ---------------------------------------------------------------- inputs

RawRow(sym, price, pct, change, volume, tov, mcap, pe, div, sector) ==
    [ symbol |-> sym, price |-> price, change_pct |-> pct, change |-> change,
      volume |-> volume, turnover |-> tov, marketcap |-> mcap, pe |-> pe,
      div_yield |-> div, sector |-> sector ]

RowAAA == RawRow("AAA", 500, 5, 25, 2000000, 1000000000, 3, 10, 2, "Technology")
RowBBB == RawRow("BBB", 500, -2, -10, 4000000, 2000000000, 1, 20, 0, "Utilities")
RowCCC == RawRow("CCC", 500, 5, 25, 2000000, 1000000000, 3, 10, 2, "UTILITIES")
RowDup == RawRow("AAA", 400, 1, 4, 2500000, 1000000000, 2, 15, 1, "Healthcare")
RowLow == RawRow("DDD", 100, 9, 9, 10000000, 1000000000, 2, 5, 3, "Technology")

RowPool == {RowAAA, RowBBB, RowCCC, RowDup, RowLow}

HeaderPlain == {"symbol", "price", "change_pct", "turnover"}
HeaderFull == {"symbol", "price", "change_pct", "turnover", "marketcap", "pe",
               "div_yield", "sector"}
HeaderDerived == {"symbol", "price", "change", "volume", "sector"}

Headers == {HeaderPlain, HeaderFull, HeaderDerived}

CsvFiles ==
    {NoCsvFile} \cup
    { CsvFileOf(h, rows) : h \in Headers, rows \in SeqsUpTo(RowPool, MaxRows) }

CfgChangeOnly ==
    CfgFileOf([W_CHANGE |-> "1", W_TURNOVER |-> "0", W_MCAP |-> "0", W_DIV |-> "0",
               W_PE |-> "0", TOP_LIMIT |-> "1"])

CfgFiles ==
    { NoCfgFile,
      CfgChangeOnly,
      CfgFileOf([TOP_LIMIT |-> "2"]),
      CfgFileOf([TOP_LIMIT |-> "0"]),
      CfgFileOf([TOP_LIMIT |-> "2", SECTOR_DEFENSIVE |-> ""]),
      CfgFileOf([TOP_LIMIT |-> "abc", EXCLUDE_SYMBOLS |-> "aaa"]),
      CfgFileOf([TOP_LIMIT |-> "3", INCLUDE_SECTORS |-> "technology"]) }

NoTables == [l \in Lists |-> <<>>]

Init ==
    /\ pc = "load_config"
    /\ cfgFile \in CfgFiles
    /\ csvFile \in CsvFiles
    /\ files \in {[l \in Lists |-> NoFile], [l \in Lists |-> StaleFile]}
    /\ cfg = <<>>
    /\ top_n = 0
    /\ raw = <<>>
    /\ df = <<>>
    /\ cand = NoTables
    /\ score = NoTables
    /\ top = NoTables
    /\ col = <<>>
    /\ asc = FALSE
    /\ res = <<>>

Next ==
    \/ LoadConfig
    \/ LoadCsv
    \/ LoadCsvExit
    \/ EnsureFields
    \/ ApplyFilters
    \/ EmptyGeneral
    \/ EmptyGrowth
    \/ EmptyValue
    \/ General
    \/ Growth
    \/ Value

Spec == Init /\ [][Next]_vars

\* ------------------------------------------------- rank_score on a column

RankColumns == SeqsUpTo(0..MaxVal, MaxRows)

InitRank ==
    /\ pc = "rank"
    /\ col \in RankColumns
    /\ asc \in BOOLEAN
    /\ res = <<>>
    /\ cfgFile = NoCfgFile
    /\ csvFile = NoCsvFile
    /\ files = [l \in Lists |-> NoFile]
    /\ cfg = <<>>
    /\ top_n = 0
    /\ raw = <<>>
    /\ df = <<>>
    /\ cand = NoTables
    /\ score = NoTables
    /\ top = NoTables

\* A call rank_score(s, ascending).
RankScore ==
    /\ pc = "rank"
    /\ res' = rank_score(col, asc)
    /\ pc' = "ranked"
    /\ UNCHANGED <<cfgFile, csvFile, files, cfg, top_n, raw, df, cand, score, top, col, asc>>

NextRank == RankScore

SpecRank == InitRank /\ [][NextRank]_vars

\* ------------------------------------------------------------------ C1

\* C1: for the two rows AAA (price 500, change_pct 5, turnover 1e9) and BBB
\* (price 500, change_pct -2, turnover 2e9), with W_CHANGE=1, the other
\* general weights 0, TOP_LIMIT=1 and the default filters, the general
\* watchlist main() writes holds exactly the symbol AAA.
C1_ChangeOnlyPicksAAA ==
    ( /\ pc = "done"
      /\ cfgFile = CfgChangeOnly
      /\ csvFile = CsvFileOf(HeaderPlain, <<RowAAA, RowBBB>>) )
    => files["general"].symbols = <<"AAA">>

\* ------------------------------------------------------------------ C2

DistinctValues(s) == Cardinality(Range(s))

\* C2: on a non-empty column with at least two distinct values every rank
\* score lies in [0,1]; with ascending=False the rows of the largest value
\* score 1 and the rows of the smallest value score 0; with ascending=True
\* the rows of the smallest value score 1 and the rows of the largest 0.
C2_BestScoresOne ==
    (pc = "ranked" /\ DistinctValues(col) >= 2) =>
        \A i \in DOMAIN col :
            /\ res[i] >= 0 /\ res[i] <= ScoreScale
            /\ (~asc /\ col[i] = SeqMax(col)) => res[i] = ScoreScale
            /\ (~asc /\ col[i] = SeqMin(col)) => res[i] = 0
            /\ (asc /\ col[i] = SeqMin(col)) => res[i] = ScoreScale
            /\ (asc /\ col[i] = SeqMax(col)) => res[i] = 0

\* ------------------------------------------------------------------ C3

\* C3 as stated: when every row of a non-empty column holds the same value,
\* every row scores the midpoint 0.5, in either direction.
C3_AllEqualScoresHalf ==
    (pc = "ranked" /\ DistinctValues(col) = 1) =>
        \A i \in DOMAIN col : 2 * res[i] = ScoreScale

\* C3 as amended: when every row of a non-empty column holds the same value
\* (a single row included), every row scores 0, in either direction.
C3_AllEqualScoresZero ==
    (pc = "ranked" /\ DistinctValues(col) = 1) =>
        \A i \in DOMAIN col : res[i] = 0

C3_Witness == pc = "ranked" /\ DistinctValues(col) = 1 /\ Len(col) >= 2 /\ asc

\* ------------------------------------------------------------------ C4

\* The TOP_LIMIT the config resolves to.
ConfiguredLimit == parse_int(CfgGet(cfg, "TOP_LIMIT", "None"), 40)

\* The number of filtered rows a list is selected from: all of them for the
\* general list, and for growth (value) those whose sector is outside
\* (inside) a non-empty defensive set.
Candidates(l) ==
    LET def == DefensiveOf(cfg)
        inDef(i) == StrLower(df[i].sector) \in def
    IN  CASE l = "general" \/ def = {} -> Len(df)
          [] l = "growth" -> Cardinality({ i \in DOMAIN df : ~inDef(i) })
          [] OTHER -> Cardinality({ i \in DOMAIN df : inDef(i) })

\* C4 as stated: for each of the three lists and every configured TOP_LIMIT
\* N, the number of symbol lines written is min(N, rows left by the filter).
C4_LinesAreMinOfLimitAndFiltered ==
    pc = "done" =>
        \A l \in Lists : Len(files[l].symbols) = Min(ConfiguredLimit, Len(df))

\* C4 as amended: the number of symbol lines of a list is min(max(1, N), the
\* rows the list is selected from), and never more than the rows left by the
\* filter.
C4_LinesAreMinOfLimitAndCandidates ==
    pc = "done" =>
        \A l \in Lists :
            /\ Len(files[l].symbols) = Min(Max(1, ConfiguredLimit), Candidates(l))
            /\ Len(files[l].symbols) <= Len(df)
            /\ files[l].total = Len(files[l].symbols)

C4_Witness ==
    /\ pc = "done"
    /\ ConfiguredLimit = 2
    /\ Len(df) = 3
    /\ Len(files["general"].symbols) = 2
    /\ Len(files["growth"].symbols) = 1

\* ------------------------------------------------------------------ C5

EmptyWatchlist(l) ==
    [ kind |-> "watchlist", title |-> TitleOf(l),
      filters |-> <<cfg["MIN_PRICE"], cfg["MAX_PRICE"], cfg["MIN_TURNOVER"]>>,
      total |-> 0, symbols |-> <<>> ]

FilteredToNothing ==
    /\ pc \in {"empty_general", "empty_growth", "empty_value", "general", "growth",
               "value", "done"}
    /\ Len(raw.rows) > 0
    /\ Len(df) = 0

\* C5: when the input table is non-empty and the filter removes every row,
\* the run does not stop before it is done, and once done each of the three
\* files is the header with total=0 and no symbol line.
C5_EmptyAfterFilterWritesThree ==
    FilteredToNothing =>
        /\ pc # "done" => ENABLED Next
        /\ pc = "done" => \A l \in Lists : files[l] = EmptyWatchlist(l)

C5_Witness == FilteredToNothing /\ pc = "done" /\ files["value"].total = 0

\* ------------------------------------------------------------------ C6

InitialFiles == {[l \in Lists |-> NoFile], [l \in Lists |-> StaleFile]}

\* C6: when the input file is absent or empty the run ends at load_csv, and
\* no output file is written or modified; no write precedes the successful
\* return of load_csv.
C6_NoOutputWithoutInput ==
    /\ (~csvFile.present \/ Len(csvFile.rows) = 0) =>
            /\ files \in InitialFiles
            /\ pc \in {"load_config", "load_csv", "exit"}
    /\ pc \in {"load_config", "load_csv", "exit"} => files \in InitialFiles

C6_Witness ==
    /\ pc = "exit"
    /\ csvFile.present
    /\ Len(csvFile.rows) = 0
    /\ files = [l \in Lists |-> StaleFile]

\* ------------------------------------------- the run up to apply_filters

FilterRowPool ==
    { RawRow(sym, price, 1, 1, 1, tov, 1, 1, 1, sector) :
        sym \in {"AAA", "aaa", "BBB"},
        price \in {200, 400},
        tov \in {100000000, 300000000},
        sector \in {"Utilities", "Technology"} }

FilterCsvFiles ==
    { CsvFileOf(HeaderFull, rows) : rows \in SeqsUpTo(FilterRowPool, MaxFilterRows) }

FilterCfgFiles ==
    { NoCfgFile,
      CfgFileOf([MAX_PRICE |-> "200"]),
      CfgFileOf([MIN_PRICE |-> "400", EXCLUDE_SYMBOLS |-> "aaa"]),
      CfgFileOf([EXCLUDE_SYMBOLS |-> "BBB, ccc", INCLUDE_SECTORS |-> "technology"]),
      CfgFileOf([INCLUDE_SECTORS |-> "UTILITIES; Technology",
                 EXCLUDE_SECTORS |-> "Utilities"]),
      CfgFileOf([MIN_TURNOVER |-> "0", EXCLUDE_SECTORS |-> "technology"]) }

InitFilter ==
    /\ pc = "load_config"
    /\ cfgFile \in FilterCfgFiles
    /\ csvFile \in FilterCsvFiles
    /\ files = [l \in Lists |-> NoFile]
    /\ cfg = <<>>
    /\ top_n = 0
    /\ raw = <<>>
    /\ df = <<>>
    /\ cand = NoTables
    /\ score = NoTables
    /\ top = NoTables
    /\ col = <<>>
    /\ asc = FALSE
    /\ res = <<>>

NextFilter ==
    \/ LoadConfig
    \/ LoadCsv
    \/ LoadCsvExit
    \/ EnsureFields
    \/ ApplyFilters

SpecFilter == InitFilter /\ [][NextFilter]_vars

\* ------------------------------------------------------------------ C7

Filtered == pc \in {"empty_general", "general"}

\* A row satisfies every active predicate of the config.
Passes(r) ==
    /\ r.price >= parse_float(cfg["MIN_PRICE"], 0)
    /\ r.price <= parse_float(cfg["MAX_PRICE"], 2000000000)
    /\ r.turnover >= parse_float(cfg["MIN_TURNOVER"], 0)
    /\ \A k \in DOMAIN parse_list(cfg["EXCLUDE_SYMBOLS"]) :
            StrUpper(parse_list(cfg["EXCLUDE_SYMBOLS"])[k]) # StrUpper(r.symbol)
    /\ parse_list(cfg["INCLUDE_SECTORS"]) # <<>> =>
            \E k \in DOMAIN parse_list(cfg["INCLUDE_SECTORS"]) :
                StrLower(parse_list(cfg["INCLUDE_SECTORS"])[k]) = StrLower(r.sector)
    /\ \A k \in DOMAIN parse_list(cfg["EXCLUDE_SECTORS"]) :
            StrLower(parse_list(cfg["EXCLUDE_SECTORS"])[k]) # StrLower(r.sector)

\* The positions of the input table that hold the first passing row of a
\* symbol.
FirstPassing(t) ==
    { i \in DOMAIN t :
        /\ Passes(t[i])
        /\ \A j \in 1..(i - 1) : Passes(t[j]) => t[j].symbol # t[i].symbol }

\* C7: apply_filters returns exactly the rows that satisfy all active
\* predicates, reduced to the first passing row of each symbol, in input
\* order; no two rows of the result share a symbol.
C7_FilterIsExact ==
    Filtered =>
        LET t == ensure_fields(raw)
            keep == FirstPassing(t)
        IN  /\ Len(df) = Cardinality(keep)
            /\ \E f \in [DOMAIN df -> keep] :
                  /\ \A a, b \in DOMAIN df : a < b => f[a] < f[b]
                  /\ \A a \in DOMAIN df : df[a] = t[f[a]]
            /\ \A a, b \in DOMAIN df : a # b => df[a].symbol # df[b].symbol

\* Two passing rows share a symbol and one row fails a predicate.
C7_Witness ==
    /\ Filtered
    /\ Len(raw.rows) = 2
    /\ raw.rows[1].symbol = raw.rows[2].symbol
    /\ raw.rows[1] # raw.rows[2]
    /\ Passes(ensure_fields(raw)[1])
    /\ Passes(ensure_fields(raw)[2])
    /\ df = <<ensure_fields(raw)[1]>>
    /\ cfg["EXCLUDE_SYMBOLS"] = "aaa"

\* ------------------------------------------------------------------ C8

Scored3 == pc = "done" /\ Len(df) > 0

DefensiveList == parse_list(cfg["SECTOR_DEFENSIVE"])

InDefensive(sector) ==
    \E k \in DOMAIN DefensiveList : StrLower(DefensiveList[k]) = StrLower(sector)

SymbolsWhere(t, P(_)) == { t[i].symbol : i \in { j \in DOMAIN t : P(t[j]) } }

NotDefensive(r) == ~InDefensive(r.sector)
IsDefensive(r) == InDefensive(r.sector)
AnyRow(r) == TRUE

\* C8: the growth list is scored and selected over exactly the filtered rows
\* whose sector is not defensive and the value list over exactly those
\* whose sector is defensive (case-insensitive); with an empty defensive set
\* both use the whole filtered table; with a non-empty one no symbol is in
\* both outputs.
C8_SectorSplit ==
    Scored3 =>
        /\ DefensiveList # <<>> =>
            /\ SymbolsWhere(cand["growth"], AnyRow) = SymbolsWhere(df, NotDefensive)
            /\ SymbolsWhere(cand["value"], AnyRow) = SymbolsWhere(df, IsDefensive)
            /\ Range(files["growth"].symbols) \subseteq SymbolsWhere(df, NotDefensive)
            /\ Range(files["value"].symbols) \subseteq SymbolsWhere(df, IsDefensive)
            /\ Range(files["growth"].symbols) \cap Range(files["value"].symbols) = {}
        /\ DefensiveList = <<>> =>
            /\ cand["value"] = df
            /\ cand["growth"] = df
        /\ Len(score["growth"]) = Len(cand["growth"])
        /\ Len(score["value"]) = Len(cand["value"])

C8_Witness ==
    /\ Scored3
    /\ DefensiveList # <<>>
    /\ "AAA" \in Range(files["growth"].symbols)
    /\ "CCC" \in Range(files["value"].symbols)
    /\ Len(files["value"].symbols) = 2

\* ------------------------------------------------------------------ C9

WrittenInOrder(l) ==
    files[l].symbols = [k \in DOMAIN top[l] |-> top[l][k].symbol]

\* C9 as stated: pick_top returns the top N rows in descending score order,
\* rows of equal score in the order they had in the input table, and the
\* symbols are written one a line in that order.
C9_StableDescending ==
    Scored3 =>
        \A l \in Lists :
            /\ \A a, b \in DOMAIN top[l] : a < b =>
                  \/ top[l][a].score > top[l][b].score
                  \/ top[l][a].score = top[l][b].score /\ top[l][a].idx < top[l][b].idx
            /\ WrittenInOrder(l)

\* C9 as amended: pick_top returns N rows of the table (all of them when
\* it has fewer) in descending score order, no row left out scoring higher
\* than a row picked; rows of equal score come in no guaranteed order; the
\* symbols are written one a line in the order picked.
C9_DescendingTopN ==
    Scored3 =>
        \A l \in Lists :
            /\ Len(top[l]) = Min(top_n, Len(cand[l]))
            /\ \A a \in DOMAIN top[l] :
                  /\ top[l][a].idx \in DOMAIN cand[l]
                  /\ top[l][a].symbol = cand[l][top[l][a].idx].symbol
                  /\ top[l][a].score = score[l][top[l][a].idx]
            /\ \A a, b \in DOMAIN top[l] : a < b =>
                  /\ top[l][a].score >= top[l][b].score
                  /\ top[l][a].idx # top[l][b].idx
            /\ \A i \in DOMAIN cand[l] :
                  (\A a \in DOMAIN top[l] : top[l][a].idx # i) =>
                      \A a \in DOMAIN top[l] : score[l][i] <= top[l][a].score
            /\ WrittenInOrder(l)

C9_Witness ==
    /\ Scored3
    /\ Len(top["general"]) = 2
    /\ Len(cand["general"]) = 3
    /\ top["general"][1].score > top["general"][2].score
    /\ files["general"].symbols = <<"BBB", "CCC">>

\* ------------------------------------------------------------------ C10

RankOf(t, f, ascending) == rank_score(Column(t, f), ascending)

\* The rank score of 5-day momentum: the table has no such column, and a
\* factor without a column is 0.0 in every row.
MomentumRank(t) == rank_score([i \in DOMAIN t |-> 0], FALSE)

\* C10 as stated: with no config file the general score is 0.35 change% +
\* 0.25 turnover + 0.15 market cap + 0.10 dividend yield - 0.05
\* price/earnings + 0.20 momentum, and the growth score 0.40 change% + 0.30
\* turnover + 0.10 market cap + 0.20 momentum.
C10_StatedDefaults ==
    (Scored3 /\ ~cfgFile.present) =>
        /\ \A i \in DOMAIN df :
              score["general"][i] =
                  35 * RankOf(df, "chg_pct", FALSE)[i] + 25 * RankOf(df, "turnover", FALSE)[i]
                  + 15 * RankOf(df, "mcap", FALSE)[i] + 10 * RankOf(df, "div", FALSE)[i]
                  - 5 * RankOf(df, "pe", TRUE)[i] + 20 * MomentumRank(df)[i]
        /\ \A i \in DOMAIN cand["growth"] :
              score["growth"][i] =
                  40 * RankOf(cand["growth"], "chg_pct", FALSE)[i]
                  + 30 * RankOf(cand["growth"], "turnover", FALSE)[i]
                  + 10 * RankOf(cand["growth"], "mcap", FALSE)[i]
                  + 20 * MomentumRank(cand["growth"])[i]

\* C10 as amended: with no config file the general score is the weighted
\* sum of five rank-normalized factors, 0.45 change% + 0.30 turnover + 0.15
\* market cap + 0.10 dividend yield - 0.10 price/earnings, and the growth
\* score is 0.6 change% + 0.3 turnover + 0.1 market cap; neither has a
\* momentum factor.
C10_CodeDefaults ==
    (Scored3 /\ ~cfgFile.present) =>
        /\ Len(score["general"]) = Len(df)
        /\ \A i \in DOMAIN df :
              score["general"][i] =
                  45 * RankOf(df, "chg_pct", FALSE)[i] + 30 * RankOf(df, "turnover", FALSE)[i]
                  + 15 * RankOf(df, "mcap", FALSE)[i] + 10 * RankOf(df, "div", FALSE)[i]
                  - 10 * RankOf(df, "pe", TRUE)[i]
        /\ \A i \in DOMAIN cand["growth"] :
              score["growth"][i] =
                  60 * RankOf(cand["growth"], "chg_pct", FALSE)[i]
                  + 30 * RankOf(cand["growth"], "turnover", FALSE)[i]
                  + 10 * RankOf(cand["growth"], "mcap", FALSE)[i]

C10_Witness ==
    /\ Scored3
    /\ ~cfgFile.present
    /\ Len(df) = 3
    /\ raw.header = HeaderFull
    /\ score["general"][1] # score["general"][2]
    /\ Len(cand["growth"]) = 1

\* -------------------------------------------- the run up to ensure_fields

EnsureRowPool ==
    { RawRow(sym, price, 7, change, 2000000, 1000000000, 1, 1, 1, "Technology") :
        sym \in {"AAA", "BBB"},
        price \in {0, 500},
        change \in {-10, 0, 25} }

\* A table with a dedicated percent column beside the change column, and
\* one with a change column and no price column.
HeaderBoth == {"symbol", "price", "change_pct", "change", "turnover"}
HeaderNoPrice == {"symbol", "change", "turnover"}

EnsureCsvFiles ==
    { CsvFileOf(h, rows) :
        h \in {HeaderDerived, HeaderBoth, HeaderNoPrice},
        rows \in SeqsUpTo(EnsureRowPool, MaxEnsureRows) }

InitEnsure ==
    /\ pc = "load_config"
    /\ cfgFile = NoCfgFile
    /\ csvFile \in EnsureCsvFiles
    /\ files = [l \in Lists |-> NoFile]
    /\ cfg = <<>>
    /\ top_n = 0
    /\ raw = <<>>
    /\ df = <<>>
    /\ cand = NoTables
    /\ score = NoTables
    /\ top = NoTables
    /\ col = <<>>
    /\ asc = FALSE
    /\ res = <<>>

NextEnsure ==
    \/ LoadConfig
    \/ LoadCsv
    \/ LoadCsvExit
    \/ EnsureFields

SpecEnsure == InitEnsure /\ [][NextEnsure]_vars

\* ------------------------------------------------------------------ C11

\* ensure_fields has run on a table with a change column and no dedicated
\* percent column.
DerivedFromChange ==
    /\ pc = "apply_filters"
    /\ "change" \in raw.header
    /\ "change_pct" \notin raw.header

====
